---------------------------- MODULE Spec2Model ----------------------------
(***************************************************************************)
(* A model of mcode-cache (src/index.js): the singleton `cache` class that *)
(* fronts a node-cache instance (Local, 'node') and a Redis client         *)
(* (Remote, 'redis') behind namespaces.                                    *)
(*                                                                         *)
(* JavaScript strings are sequences of characters: <<"a", ":", "b">> is    *)
(* 'a:b'.  The tokens "MicroCODE" and "Default" stand for those words, all *)
(* of whose characters are plain letters.                                  *)
(***************************************************************************)
EXTENDS Integers, Sequences, FiniteSets, TLC

\* ------------------------------------------------------------------------
\* Strings
\* ------------------------------------------------------------------------

\* the first index >= i at which `sub` occurs in s, or 0
RECURSIVE IndexFrom(_, _, _)
IndexFrom(s, sub, i) ==
    IF i + Len(sub) - 1 > Len(s) THEN 0
    ELSE IF SubSeq(s, i, i + Len(sub) - 1) = sub THEN i
    ELSE IndexFrom(s, sub, i + 1)

\* String.prototype.replace(sub, ''): the first occurrence only
RemoveFirst(s, sub) ==
    LET i == IndexFrom(s, sub, 1)
    IN  IF i = 0 THEN s
        ELSE SubSeq(s, 1, i - 1) \o SubSeq(s, i + Len(sub), Len(s))

\* replace(/[\\/]/g, ':')
SlashesToColons(s) ==
    [i \in 1..Len(s) |-> IF s[i] \in {"/", "\\"} THEN ":" ELSE s[i]]

\* replace(/\s/g, ' ')
Whitespace == {" ", "\t", "\n"}
SpacesToSpace(s) ==
    [i \in 1..Len(s) |-> IF s[i] \in Whitespace THEN " " ELSE s[i]]

\* replace(/\.\./g, '.'): non-overlapping pairs, left to right, one pass
RECURSIVE CollapseDots(_)
CollapseDots(s) ==
    IF Len(s) = 0 THEN << >>
    ELSE IF Len(s) >= 2 /\ s[1] = "." /\ s[2] = "."
         THEN <<".">> \o CollapseDots(SubSeq(s, 3, Len(s)))
         ELSE <<s[1]>> \o CollapseDots(Tail(s))

RECURSIVE StripLeading(_, _)
StripLeading(s, c) ==
    IF Len(s) > 0 /\ s[1] = c THEN StripLeading(Tail(s), c) ELSE s

RECURSIVE StripTrailing(_, _)
StripTrailing(s, c) ==
    IF Len(s) > 0 /\ s[Len(s)] = c
    THEN StripTrailing(SubSeq(s, 1, Len(s) - 1), c) ELSE s

\* replace(/^c+|c+$/g, '')
StripEnds(s, c) == StripTrailing(StripLeading(s, c), c)

\* cacheMakeKey(keySource) under the current namespace ns
cacheMakeKey(ns, keySource) ==
    LET k1 == SlashesToColons(keySource)
        k2 == SpacesToSpace(k1)
        k3 == CollapseDots(k2)
        k4 == StripEnds(k3, ".")
        k5 == StripEnds(k4, ":")
    IN  ns \o <<":">> \o k5

\* fileGetRoot(): the parent of the directory of the main script
fileGetRoot == <<"/", "srv">>

\* fileMakeKey(filePath) under the current namespace ns
fileMakeKey(ns, filePath) == cacheMakeKey(ns, RemoveFirst(filePath, fileGetRoot))

\* ------------------------------------------------------------------------
\* Key patterns
\* ------------------------------------------------------------------------

\* _convertGlobToRegExp: the source text of the regular expression
RECURSIVE EscapedPattern(_)
EscapedPattern(g) ==
    IF Len(g) = 0 THEN << >>
    ELSE (CASE g[1] = "*" -> <<".", "*">>
            [] g[1] = "?" -> <<".">>
            [] g[1] = "[" -> <<"\\", "[">>
            [] g[1] = "]" -> <<"\\", "]">>
            [] OTHER      -> <<g[1]>>) \o EscapedPattern(Tail(g))

\* The atoms of a regular expression's source: a character or '.', each
\* possibly starred.  A backslash makes the next character a literal.
RECURSIVE RegExpAtoms(_)
RegExpAtoms(re) ==
    IF Len(re) = 0 THEN << >>
    ELSE LET esc  == re[1] = "\\" /\ Len(re) >= 2
             n    == IF esc THEN 2 ELSE 1
             ch   == IF esc THEN re[2] ELSE re[1]
             any  == ~esc /\ re[1] = "."
             star == Len(re) > n /\ re[n + 1] = "*"
             used == IF star THEN n + 1 ELSE n
         IN  <<[any |-> any, ch |-> ch, star |-> star]>>
                \o RegExpAtoms(SubSeq(re, used + 1, Len(re)))

\* the line terminators: without the s flag '.' matches none of them
LineTerminators == {"\n", "\r"}

AtomAccepts(a, c) == IF a.any THEN c \notin LineTerminators ELSE a.ch = c

\* whether the atoms match the whole of s (the expression is ^...$)
RECURSIVE AtomsMatch(_, _)
AtomsMatch(as, s) ==
    IF Len(as) = 0 THEN Len(s) = 0
    ELSE IF as[1].star
         THEN \/ AtomsMatch(Tail(as), s)
              \/ Len(s) > 0 /\ AtomAccepts(as[1], s[1]) /\ AtomsMatch(as, Tail(s))
         ELSE Len(s) > 0 /\ AtomAccepts(as[1], s[1]) /\ AtomsMatch(Tail(as), Tail(s))

\* _convertGlobToRegExp(globPattern).test(s)
ConvertGlobToRegExpTest(globPattern, s) ==
    AtomsMatch(RegExpAtoms(EscapedPattern(globPattern)), s)

\* Redis KEYS: the server's own glob match, '*' any run, '?' any one
\* character, every other character itself
RECURSIVE GlobMatch(_, _)
GlobMatch(g, s) ==
    IF Len(g) = 0 THEN Len(s) = 0
    ELSE IF g[1] = "*"
         THEN GlobMatch(Tail(g), s) \/ (Len(s) > 0 /\ GlobMatch(g, Tail(s)))
         ELSE /\ Len(s) > 0
              /\ (g[1] = "?" \/ g[1] = s[1])
              /\ GlobMatch(Tail(g), Tail(s))

\* ------------------------------------------------------------------------
\* Bounds and inputs
\* ------------------------------------------------------------------------

\* facade calls issued in one run
MaxOps == 3
\* facade calls in flight at once (suspended at an await)
MaxCalls == 2

Slots == 1..MaxCalls

\* the default namespace, and the names an application registers
DefaultNs == <<"MicroCODE">>
NsNames == {DefaultNs, <<"R">>, <<"B">>}
NsTypes == {"node", "redis", "other"}

\* application keys: the file 'a.b' and the path 'a/b'
RawKeys == {<<"a", ".", "b">>, <<"a", "/", "b">>}
\* file paths: '/srv/a.b', the file 'a.b' under the root
FilePaths == {<<"/", "srv", "/", "a", ".", "b">>}
\* key patterns given to the bulk operations
Patterns == {<<"*">>, <<"a", ".", "b">>}
\* the `cache` and `namespace` filters of the bulk operations
Star == <<"*">>
CacheFilters == {"*", "node", "redis"}
NsFilters == {Star} \cup NsNames

\* what node-cache's get returns for a missing key, and what Redis GET does
Undefined == "<undefined>"
Null == "<null>"

\* a name that is not given: namespace.name is undefined or ''
NoName == << >>
\* what addNamespace may be given as name and as type; no name and no type
\* is also what a missing argument comes to
NsArgNames == NsNames \cup {NoName}
NsArgTypes == NsTypes \cup {Undefined}

\* the connection settings a namespace may carry
NsOptions ==
    {[url |-> Undefined, port |-> Undefined, user |-> Undefined, password |-> Undefined]}

REDIS_URL == "redis://127.0.0.1:6379"
REDIS_PORT == "6379"
REDIS_USER == "user"
REDIS_PASSWORD == "password"
CACHE_TTL == 86400

\* cached values are JavaScript strings; '' is the one falsy string
Values == {"", "X", "Y"}

\* ------------------------------------------------------------------------
\* State
\* ------------------------------------------------------------------------

VARIABLES
    cache,            \* #cache: "NodeCache" or "null"
    nodeStore,        \* the entries of the node-cache instance
    cacheNamespace,   \* #cacheNamespace
    cacheNamespaces,  \* #cacheNamespaces, in insertion order: <<[name, type]>>
    cacheEnabled,     \* #cacheEnabled
    redis,            \* #redis: "client" or "null"
    redisConnected,   \* #redisConnected
    redisEnabled,     \* #redisEnabled
    redisURL,         \* #redisURL
    redisPort,        \* #redisPort
    redisUser,        \* #redisUser
    redisPassword,    \* #redisPassword
    clientOptions,    \* the options the Redis client was created with
    redisClients,     \* the number of clients Redis.createClient has made
    cacheTTL,         \* #cacheTTL
    redisStore,       \* the entries held by the Redis server
    redisDown,        \* the Redis server is unreachable: commands are rejected
    calls,            \* the facade calls suspended at an await, by slot
    ret,              \* the facade call that the last step completed, if any
    ops,              \* facade calls issued so far
    flushed           \* the kinds that are off and whose cacheDropAll, the one
                      \* cacheOff or redisOff started, has returned

vars == <<cache, nodeStore, cacheNamespace, cacheNamespaces, cacheEnabled,
          redis, redisConnected, redisEnabled, redisURL, redisPort, redisUser,
          redisPassword, clientOptions, redisClients, cacheTTL, redisStore,
          redisDown, calls, ret, ops, flushed>>

settingsVars == <<redisURL, redisPort, redisUser, redisPassword, cacheTTL>>
nodeVars == <<cache, nodeStore, cacheEnabled>>
redisVars == <<redis, redisConnected, redisEnabled, clientOptions, redisClients, redisStore, redisDown>>
nsVars == <<cacheNamespace, cacheNamespaces>>

Idle == [op |-> "none"]
\* the calls that run _cacheGet
GetOps == {"cacheGet", "fileRead"}
NoRet == [op |-> "none"]
BulkOps == {"cacheDropAll", "cacheListAll"}

NamesOf(reg) == {reg[i].name : i \in 1..Len(reg)}
Registered == NamesOf(cacheNamespaces)

\* reg[name], for the object reg of a namespace's type by name
TypeIn(reg, name) ==
    IF name \in NamesOf(reg)
    THEN reg[CHOOSE j \in 1..Len(reg) : reg[j].name = name].type
    ELSE "undefined"

\* this.#cacheNamespaces[name]
TypeOf(name) == TypeIn(cacheNamespaces, name)

\* an assignment that always adds a property
AssignAppends(reg, name, type) == Append(reg, [name |-> name, type |-> type])

\* reg[name] = type: a new property goes last, an old one keeps its place
Assign(reg, name, type) ==
    IF name \in NamesOf(reg)
    THEN [i \in 1..Len(reg) |-> IF reg[i].name = name
                                THEN [name |-> name, type |-> type] ELSE reg[i]]
    ELSE Append(reg, [name |-> name, type |-> type])

\* `${v}`
TemplateString(v) == IF v = Null THEN "null" ELSE v
\* !v is false
Truthy(v) == v \notin {"", Null, Undefined}

\* a map with one more entry / one entry less
Put(store, k, v) == [x \in DOMAIN store \cup {k} |-> IF x = k THEN v ELSE store[x]]
DelNothing(store, ks) == store
Del(store, ks) == [x \in DOMAIN store \ ks |-> store[x]]

HasFree == \E i \in Slots : calls[i].op = "none"
FreeSlot == CHOOSE i \in Slots : calls[i].op = "none" /\ \A j \in 1..(i - 1) : calls[j].op # "none"

\* Another call acted: the bulk calls in flight no longer run alone.
Disturb(cs, me) ==
    [i \in Slots |-> IF i # me /\ cs[i].op \in BulkOps
                     THEN [cs[i] EXCEPT !.clean = FALSE] ELSE cs[i]]

\* the calls in flight after a cacheSet or cacheDrop took effect on cacheKey
\* in the backend of kind: the cacheGet and fileRead calls of that key note it
Crosses(cs, kind, cacheKey, op) ==
    [i \in Slots |-> IF cs[i].op \in {"cacheGet", "fileRead"}
                        /\ cs[i].cacheKey = cacheKey
                        /\ (IF cs[i].kind = "redis" THEN "redis" ELSE "node")
                              = (IF kind = "redis" THEN "redis" ELSE "node")
                     THEN [cs[i] EXCEPT !.crossed = op] ELSE cs[i]]

CanIssue == ops < MaxOps

\* no Redis client was created yet: there are no options it was created with
NoClientOptions == [url |-> Undefined]

\* a readiness that looks at the Redis connection alone once a client exists
cacheReadyOfClient ==
    IF redis # "null" THEN redisConnected ELSE cache # "null"

\* get cacheReady()
cacheReady ==
    IF redis # "null" THEN cache # "null" /\ redisConnected ELSE cache # "null"

\* ------------------------------------------------------------------------
\* constructor
\* ------------------------------------------------------------------------

\* _cacheInit, addNamespace({name: 'MicroCODE', type: 'node'}),
\* cacheNamespace = 'MicroCODE', cacheSet('Default', 'node-cache')
Init ==
    /\ cache = "NodeCache"
    /\ nodeStore = (fileMakeKey(DefaultNs, <<"Default">>) :> "node-cache")
    /\ cacheNamespace = DefaultNs
    /\ cacheNamespaces = <<[name |-> DefaultNs, type |-> "node"]>>
    /\ cacheEnabled = TRUE
    /\ redis = "null"
    /\ redisConnected = FALSE
    /\ redisEnabled = TRUE
    /\ redisURL = REDIS_URL
    /\ redisPort = REDIS_PORT
    /\ redisUser = REDIS_USER
    /\ redisPassword = REDIS_PASSWORD
    /\ cacheTTL = CACHE_TTL
    /\ clientOptions = NoClientOptions
    /\ redisClients = 0
    /\ redisStore = << >>
    /\ redisDown = FALSE
    /\ calls = [i \in Slots |-> Idle]
    /\ ret = NoRet
    /\ ops = 0
    /\ flushed = {}

\* ------------------------------------------------------------------------
\* addNamespace, cacheNamespace
\* ------------------------------------------------------------------------

\* the options _redisInit gives Redis.createClient
ClientOptions(url, user, password) ==
    IF Truthy(user) /\ Truthy(password)
    THEN [url |-> url, username |-> user, password |-> password]
    ELSE [url |-> url]

\* addNamespace's first-Redis-namespace branch: the settings, then _redisInit
ProvisionRedis(opt) ==
    LET url      == IF Truthy(opt.url) THEN opt.url ELSE redisURL
        port     == IF Truthy(opt.port) THEN opt.port ELSE "6379"
        user     == IF Truthy(opt.user) THEN opt.user ELSE Null
        password == IF Truthy(opt.password) THEN opt.password ELSE Null
    IN  /\ redisURL' = TemplateString(url)
        /\ redisPort' = TemplateString(port)
        /\ redisUser' = TemplateString(user)
        /\ redisPassword' = TemplateString(password)
        /\ IF redisConnected
           THEN UNCHANGED <<redis, clientOptions, redisClients>>
           ELSE /\ redis' = "client"
                /\ clientOptions' = ClientOptions(redisURL', redisUser', redisPassword')
                /\ redisClients' = redisClients + 1
        /\ UNCHANGED cacheTTL

\* the first guard alone
NamespaceRejectedUntyped(name, type) == name = NoName \/ ~Truthy(type)

\* addNamespace's two guards: `!namespace || !namespace.name ||
\* !namespace.type`, then the type being neither 'node' nor 'redis'
NamespaceRejected(name, type) ==
    \/ name = NoName
    \/ ~Truthy(type)
    \/ type # "node" /\ type # "redis"

\* every redis namespace taken as the first one
EveryRedisNamespace(type) == type = "redis"

\* `namespace.type === 'redis' && !this.#redis`
FirstRedisNamespace(type) == type = "redis" /\ redis = "null"

\* addNamespace({name, type, ...opt})
addNamespace(name, type, opt) ==
    /\ CanIssue
    /\ ops' = ops + 1
    /\ IF NamespaceRejected(name, type)
       THEN /\ UNCHANGED <<cacheNamespaces, redis, clientOptions, redisClients, settingsVars>>
            /\ calls' = calls
       ELSE /\ IF FirstRedisNamespace(type)
               THEN ProvisionRedis(opt)
               ELSE UNCHANGED <<redis, clientOptions, redisClients, settingsVars>>
            /\ cacheNamespaces' = Assign(cacheNamespaces, name, type)
            /\ calls' = Disturb(calls, 0)
    /\ ret' = [op |-> "addNamespace", name |-> name, type |-> type,
               opt |-> opt, was |-> TypeOf(name)]
    /\ UNCHANGED <<nodeVars, cacheNamespace, redisConnected, redisEnabled,
                   redisStore, redisDown, flushed>>

\* set redisURL(value), set redisPort(value), set redisUser(value),
\* set redisPassword(value), set cacheTTL(value): the field is assigned
SetSetting(name, value) ==
    /\ CanIssue
    /\ ops' = ops + 1
    /\ redisURL' = IF name = "redisURL" THEN value ELSE redisURL
    /\ redisPort' = IF name = "redisPort" THEN value ELSE redisPort
    /\ redisUser' = IF name = "redisUser" THEN value ELSE redisUser
    /\ redisPassword' = IF name = "redisPassword" THEN value ELSE redisPassword
    /\ cacheTTL' = IF name = "cacheTTL" THEN value ELSE cacheTTL
    /\ ret' = [op |-> "set", name |-> name, value |-> value]
    /\ UNCHANGED <<nodeVars, redisVars, nsVars, calls, flushed>>

\* set cacheNamespace(value)
SetCacheNamespace(value) ==
    /\ CanIssue
    /\ ops' = ops + 1
    /\ cacheNamespace' = value
    /\ calls' = Disturb(calls, 0)
    /\ ret' = [op |-> "cacheNamespace"]
    /\ UNCHANGED <<nodeVars, redisVars, settingsVars, cacheNamespaces, flushed>>

\* ------------------------------------------------------------------------
\* cacheSet, cacheDrop
\* ------------------------------------------------------------------------

\* a command on the Redis client fails: this.#redis is null, or the server
\* rejects it
RedisFails == redis = "null" \/ redisDown

\* cacheSet(key, value)
cacheSet(key, value) ==
    LET ns       == cacheNamespace
        cacheKey == fileMakeKey(ns, key)
        kind     == TypeOf(ns)
        fault    == IF kind = "redis" THEN RedisFails ELSE FALSE
        written  == IF kind = "redis" THEN ~RedisFails
                    ELSE cacheEnabled /\ cache # "null"
    IN  /\ CanIssue
        /\ ops' = ops + 1
        /\ IF kind = "redis"
           THEN /\ redisStore' = IF written THEN Put(redisStore, cacheKey, value)
                                 ELSE redisStore
                /\ UNCHANGED nodeStore
           ELSE /\ nodeStore' = IF written THEN Put(nodeStore, cacheKey, value)
                                ELSE nodeStore
                /\ UNCHANGED redisStore
        /\ calls' = IF written
                    THEN Crosses(Disturb(calls, 0), kind, cacheKey,
                                 [op |-> "cacheSet", value |-> value])
                    ELSE Disturb(calls, 0)
        /\ ret' = [op |-> "cacheSet", ns |-> ns, key |-> key, cacheKey |-> cacheKey,
                   kind |-> kind, value |-> value, written |-> written,
                   outcome |-> IF fault THEN "fault" ELSE "ok"]
        /\ UNCHANGED <<cache, cacheEnabled, nsVars, settingsVars, redis,
                       redisConnected, redisEnabled, clientOptions, redisClients, redisDown, flushed>>

\* cacheDrop(key)
cacheDrop(key) ==
    LET ns       == cacheNamespace
        cacheKey == fileMakeKey(ns, key)
        kind     == TypeOf(ns)
        fault    == IF kind = "redis" THEN RedisFails ELSE cache = "null"
        store    == IF kind = "redis" THEN redisStore ELSE nodeStore
        count    == IF cacheKey \in DOMAIN store THEN 1 ELSE 0
    IN  /\ CanIssue
        /\ ops' = ops + 1
        /\ IF fault
           THEN UNCHANGED <<nodeStore, redisStore>>
           ELSE IF kind = "redis"
                THEN redisStore' = Del(redisStore, {cacheKey}) /\ UNCHANGED nodeStore
                ELSE nodeStore' = Del(nodeStore, {cacheKey}) /\ UNCHANGED redisStore
        /\ calls' = IF fault
                    THEN Disturb(calls, 0)
                    ELSE Crosses(Disturb(calls, 0), kind, cacheKey, [op |-> "cacheDrop"])
        /\ ret' = [op |-> "cacheDrop", ns |-> ns, key |-> key, cacheKey |-> cacheKey,
                   kind |-> kind, result |-> IF fault THEN Undefined ELSE count,
                   outcome |-> IF fault THEN "fault" ELSE "ok"]
        /\ UNCHANGED <<cache, cacheEnabled, nsVars, settingsVars, redis,
                       redisConnected, redisEnabled, clientOptions, redisClients, redisDown, flushed>>

\* ------------------------------------------------------------------------
\* cacheGet, _cacheGet
\* ------------------------------------------------------------------------

\* A cacheGet call.  pc, while it waits for the callback:
\*   "try"   at `value = await cb()`: the result is stored, a fault is caught
\*   "off"   at `return cb()` of the disabled branch, inside the try
\*   "catch" at `return cb()` of the catch block
\* The rest records what the call met and did: held, the backend's entry at
\* the start; after, the cacheSet or cacheGet of the same key under the same
\* namespace that completed right before; reads and writes, the backends
\* the call has read and written; closed, whether cacheClose had let the
\* node-cache instance go when the call began; crossed, the last cacheSet
\* or cacheDrop of the call's backend key that took effect while the call
\* waited.
GetCall(ns, key, cacheKey, kind) ==
    [op |-> "cacheGet", pc |-> "new", awaited |-> TRUE, ns |-> ns, key |-> key, cacheKey |-> cacheKey,
     kind |-> kind, closed |-> cache = "null",
     off |-> IF kind = "redis" THEN ~redisEnabled ELSE ~cacheEnabled,
     held |-> IF kind = "redis"
              THEN (IF cacheKey \in DOMAIN redisStore THEN redisStore[cacheKey] ELSE Null)
              ELSE (IF cacheKey \in DOMAIN nodeStore THEN nodeStore[cacheKey] ELSE Undefined),
     after |-> IF ret.op \in {"cacheSet", "cacheGet"} /\ ret.ns = ns /\ ret.key = key
                  /\ ret.outcome = "ok"
               THEN [op |-> ret.op,
                     value |-> IF ret.op = "cacheSet" THEN ret.value ELSE ret.result,
                     stored |-> IF ret.op = "cacheSet" THEN ret.written
                                ELSE ret.writes # {}]
               ELSE [op |-> "none"],
     cbCalls |-> 0, cbFaults |-> 0, cbValue |-> Undefined,
     crossed |-> [op |-> "none"],
     backendFault |-> FALSE, reads |-> {}, writes |-> {},
     result |-> Undefined, outcome |-> "pending"]

Returns(c, v) == [c EXCEPT !.pc = "done", !.result = v, !.outcome = "ok"]
Throws(c) == [c EXCEPT !.pc = "done", !.outcome = "fault"]
InvokesCb(c, pc) == [c EXCEPT !.pc = pc, !.cbCalls = @ + 1]

\* cacheGet with one computation per key: a call that finds another call of
\* its key waiting for the callback returns without a callback of its own
GetBeginsOncePerKey(c) ==
    IF c.kind = "redis"
    THEN IF RedisFails
         THEN Throws([c EXCEPT !.backendFault = TRUE])
         ELSE Returns([c EXCEPT !.reads = {"redis"}], c.held)
    ELSE IF ~cacheEnabled THEN InvokesCb(c, "off")
         ELSE IF cache = "null"
              THEN InvokesCb([c EXCEPT !.backendFault = TRUE], "catch")
              ELSE IF Truthy(c.held)
                      \/ \E i \in Slots : /\ calls[i].op = "cacheGet"
                                          /\ calls[i].pc = "try"
                                          /\ calls[i].cacheKey = c.cacheKey
                   THEN Returns([c EXCEPT !.reads = {"node"}], c.held)
                   ELSE InvokesCb([c EXCEPT !.reads = {"node"}], "try")

\* the synchronous part of cacheGet(key, cb), to its first await
GetBegins(c) ==
    IF c.kind = "redis"
    THEN \* return await this.#redis.get(cacheKey)
         IF RedisFails
         THEN Throws([c EXCEPT !.backendFault = TRUE])
         ELSE Returns([c EXCEPT !.reads = {"redis"}], c.held)
    ELSE \* _cacheGet(cacheKey, cb)
         IF ~cacheEnabled THEN InvokesCb(c, "off")
         ELSE IF cache = "null"
              THEN InvokesCb([c EXCEPT !.backendFault = TRUE], "catch")
              ELSE IF Truthy(c.held)
                   THEN Returns([c EXCEPT !.reads = {"node"}], c.held)
                   ELSE InvokesCb([c EXCEPT !.reads = {"node"}], "try")

\* a step leaves call c in slot i, or completes it
Settle(i, c) ==
    IF c.pc = "done"
    THEN /\ calls' = [Disturb(calls, i) EXCEPT ![i] = Idle]
         /\ ret' = c
    ELSE /\ calls' = [Disturb(calls, i) EXCEPT ![i] = c]
         /\ ret' = NoRet

\* cacheGet(key, cb)
cacheGet(key) ==
    LET ns       == cacheNamespace
        cacheKey == fileMakeKey(ns, key)
    IN  /\ CanIssue
        /\ HasFree
        /\ ops' = ops + 1
        /\ Settle(FreeSlot, GetBegins(GetCall(ns, key, cacheKey, TypeOf(ns))))
        /\ UNCHANGED <<nodeVars, redisVars, settingsVars, nsVars, flushed>>

\* the key made under the namespace that is current when the callback returns
CurrentKey(c) == fileMakeKey(cacheNamespace, c.key)

\* _cacheGet sets the cacheKey it was called with, made when the call began
CapturedKey(c) == c.cacheKey

\* a set that leaves an entry written meanwhile as it is
StoreIfAbsent(store, c, value) ==
    IF CapturedKey(c) \in DOMAIN store THEN store ELSE Put(store, CapturedKey(c), value)

\* `await this.#cache.set(cacheKey, value)` after the callback: no test of
\* what the node-cache holds by now
StoreAfterCb(store, c, value) == Put(store, CapturedKey(c), value)

\* the callback of the call in slot i returns value
CbReturns(i, value) ==
    LET c == [calls[i] EXCEPT !.cbValue = value]
    IN  /\ calls[i].op \in GetOps
        /\ IF c.pc = "try"
           THEN \* await this.#cache.set(cacheKey, value)
                IF cache = "null"
                THEN /\ Settle(i, InvokesCb([c EXCEPT !.backendFault = TRUE], "catch"))
                     /\ UNCHANGED nodeStore
                ELSE /\ nodeStore' = StoreAfterCb(nodeStore, c, value)
                     /\ Settle(i, Returns([c EXCEPT !.writes = {"node"}], value))
           ELSE /\ Settle(i, Returns(c, value))
                /\ UNCHANGED nodeStore
        /\ UNCHANGED <<cache, cacheEnabled, redisVars, settingsVars, nsVars, ops, flushed>>

\* a fault of the callback that goes to the caller at once, no second call
CbFailsOnce(i) ==
    LET c == [calls[i] EXCEPT !.cbFaults = @ + 1]
    IN  /\ calls[i].op \in GetOps
        /\ Settle(i, Throws(c))
        /\ UNCHANGED <<nodeVars, redisVars, settingsVars, nsVars, ops, flushed>>

\* the callback of the call in slot i throws, or its promise is rejected
CbFails(i) ==
    LET c == [calls[i] EXCEPT !.cbFaults = @ + 1]
    IN  /\ calls[i].op \in GetOps
        /\ \/ c.pc = "try" /\ Settle(i, InvokesCb(c, "catch"))
           \/ c.pc = "off" /\ Settle(i, InvokesCb(c, "catch"))
           \/ c.pc = "off" /\ Settle(i, Throws(c))
           \/ c.pc = "catch" /\ Settle(i, Throws(c))
        /\ UNCHANGED <<nodeVars, redisVars, settingsVars, nsVars, ops, flushed>>

\* ------------------------------------------------------------------------
\* fileRead, fileDrop
\* ------------------------------------------------------------------------

\* A fileRead call: _cacheGet on the node-cache, whatever the kind of the
\* current namespace, with the read of the file from disk as callback.
\* after: the fileRead or fileDrop of the same path under the same namespace
\* that completed right before.
FileCall(ns, filePath, cacheKey) ==
    [GetCall(ns, filePath, cacheKey, "node") EXCEPT
        !.op = "fileRead",
        !.after = IF ret.op \in {"fileRead", "fileDrop"} /\ ret.ns = ns
                     /\ ret.key = filePath /\ ret.outcome = "ok"
                  THEN [op |-> ret.op,
                        value |-> IF ret.op = "fileRead" THEN ret.result ELSE Undefined,
                        stored |-> IF ret.op = "fileRead"
                                   THEN ret.writes # {} \/ ret.cbCalls = 0
                                   ELSE FALSE]
                  ELSE IF ret.op = "fileWrite" /\ ret.ns = ns /\ ret.key = filePath
                  THEN [op |-> "fileWrite", value |-> ret.data, stored |-> ret.written,
                        failed |-> ret.disk = "failed"]
                  ELSE [op |-> "none"]]

\* fileRead(filePath)
fileRead(filePath) ==
    LET ns       == cacheNamespace
        cacheKey == fileMakeKey(ns, filePath)
    IN  /\ CanIssue
        /\ HasFree
        /\ ops' = ops + 1
        /\ Settle(FreeSlot, GetBegins(FileCall(ns, filePath, cacheKey)))
        /\ UNCHANGED <<nodeVars, redisVars, settingsVars, nsVars, flushed>>

\* fileDrop(filePath): _cacheDrop on the node-cache
fileDrop(filePath) ==
    LET ns       == cacheNamespace
        cacheKey == fileMakeKey(ns, filePath)
        fault    == cache = "null"
        count    == IF cacheKey \in DOMAIN nodeStore THEN 1 ELSE 0
    IN  /\ CanIssue
        /\ ops' = ops + 1
        /\ nodeStore' = IF fault THEN nodeStore ELSE Del(nodeStore, {cacheKey})
        /\ calls' = Disturb(calls, 0)
        /\ ret' = [op |-> "fileDrop", ns |-> ns, key |-> filePath, cacheKey |-> cacheKey,
                   kind |-> "node", result |-> IF fault THEN Undefined ELSE count,
                   outcome |-> IF fault THEN "fault" ELSE "ok"]
        /\ UNCHANGED <<cache, cacheEnabled, redisVars, settingsVars, nsVars, flushed>>

\* fileWrite(filePath, fileData) up to its first await.  cacheDrop(cacheKey)
\* is called and not awaited: it makes a key of the key and deletes that in
\* the backend of the current namespace.  _cacheSet(cacheKey, fileData) is
\* called and not awaited: node-cache's set takes effect at once.
\* dropFault: the promise of cacheDrop is rejected, and nobody handles it.
fileWrite(filePath, fileData) ==
    LET ns       == cacheNamespace
        cacheKey == fileMakeKey(ns, filePath)
        dropKey  == fileMakeKey(ns, cacheKey)
        kind     == TypeOf(ns)
        dropFault == IF kind = "redis" THEN RedisFails ELSE cache = "null"
        written  == cacheEnabled /\ cache # "null"
        dropped  == IF kind = "redis" \/ dropFault THEN nodeStore
                    ELSE Del(nodeStore, {dropKey})
        i        == FreeSlot
    IN  /\ CanIssue
        /\ HasFree
        /\ ops' = ops + 1
        /\ nodeStore' = IF written THEN Put(dropped, cacheKey, fileData) ELSE dropped
        /\ redisStore' = IF kind = "redis" /\ ~dropFault THEN Del(redisStore, {dropKey})
                         ELSE redisStore
        /\ calls' = [(IF written
                      THEN Crosses(Disturb(calls, i), "node", cacheKey,
                                   [op |-> "cacheSet", value |-> fileData])
                      ELSE Disturb(calls, i))
                        EXCEPT ![i] = [op |-> "fileWrite", pc |-> "disk", awaited |-> TRUE,
                                       ns |-> ns, key |-> filePath, cacheKey |-> cacheKey,
                                       kind |-> kind, data |-> fileData,
                                       written |-> written, dropFault |-> dropFault,
                                       disk |-> "pending", result |-> Undefined,
                                       outcome |-> "pending"]]
        /\ ret' = NoRet
        /\ UNCHANGED <<cache, cacheEnabled, redis, redisConnected, redisEnabled,
                       clientOptions, redisClients, redisDown, settingsVars, nsVars, flushed>>

\* fs.access and fs.writeFile succeed: fileWrite returns what writeFile
\* resolves to, undefined
DiskWrites(i) ==
    /\ calls[i].op = "fileWrite"
    /\ Settle(i, [calls[i] EXCEPT !.pc = "done", !.disk = "written",
                                  !.result = Undefined, !.outcome = "ok"])
    /\ UNCHANGED <<nodeVars, redisVars, settingsVars, nsVars, ops, flushed>>

\* fs.access or fs.writeFile fails: the catch block returns null
DiskFails(i) ==
    /\ calls[i].op = "fileWrite"
    /\ Settle(i, [calls[i] EXCEPT !.pc = "done", !.disk = "failed",
                                  !.result = Null, !.outcome = "ok"])
    /\ UNCHANGED <<nodeVars, redisVars, settingsVars, nsVars, ops, flushed>>

\* ------------------------------------------------------------------------
\* cacheDropAll, cacheListAll
\* ------------------------------------------------------------------------

\* _cacheKeys(pattern) on a node-cache holding `store`: all its keys,
\* filtered by the RegExp
cacheKeysOf(store, pattern) ==
    {k \in DOMAIN store : ConvertGlobToRegExpTest(pattern, k)}

\* this.#redis.keys(pattern) on a server holding `store`: Redis KEYS
redisKeysOf(store, pattern) == {k \in DOMAIN store : GlobMatch(pattern, k)}

cacheKeys(pattern) == cacheKeysOf(nodeStore, pattern)
redisKeys(pattern) == redisKeysOf(redisStore, pattern)

\* the namespace test of both loops
NamespaceSelected(thisNamespace, namespace) ==
    thisNamespace = namespace \/ namespace = Star

\* the two `if`s on cacheType in cacheDropAll's loop
DropAllSelects(cacheType, cacheFilter) ==
    \/ cacheType = "node" /\ (cacheFilter = "node" \/ cacheFilter = "*")
    \/ cacheType = "redis" /\ (cacheFilter = "redis" \/ cacheFilter = "*")

\* cacheListAll's test without its `|| cache === '*'`
ListAllSelectsNoStar(cacheType, cacheFilter) ==
    /\ cacheType = cacheFilter
    /\ cacheType = "node" \/ cacheType = "redis"

\* the nested `if`s on cacheType in cacheListAll's loop
ListAllSelects(cacheType, cacheFilter) ==
    /\ cacheType = cacheFilter \/ cacheFilter = "*"
    /\ cacheType = "node" \/ cacheType = "redis"

\* A cacheDropAll or cacheListAll call.  names is the loop's property list,
\* idx the namespace it is at, pending the keys listed for that namespace.
\* pc: "listed" at the await of the keys, "deleted" at the await of the
\* deletions.  awaited: the caller holds the promise (cacheOff and redisOff
\* drop it).  removed: the <<backend, key>> entries the call deleted; visited:
\* the namespaces it has dealt with; clean: no other call acted meanwhile.
BulkCall(op, cacheFilter, namespace, pattern, awaited) ==
    [op |-> op, pc |-> "new", awaited |-> awaited, cache |-> cacheFilter, namespace |-> namespace,
     pattern |-> pattern,
     names |-> [i \in 1..Len(cacheNamespaces) |-> cacheNamespaces[i].name],
     idx |-> 0, type |-> "undefined", pending |-> {},
     count |-> 0, keys |-> {}, removed |-> {}, visited |-> {}, clean |-> TRUE,
     backendFault |-> FALSE, outcome |-> "pending"]

BulkSelects(c, j) ==
    /\ NamespaceSelected(c.names[j], c.namespace)
    /\ IF c.op = "cacheDropAll"
       THEN DropAllSelects(TypeOf(c.names[j]), c.cache)
       ELSE ListAllSelects(TypeOf(c.names[j]), c.cache)

\* The loop runs on from c.idx to the next selected namespace and asks its
\* backend for the keys, or ends and the call returns.
BulkAdvances(c) ==
    LET rest == {j \in (c.idx + 1)..Len(c.names) : BulkSelects(c, j)}
    IN  IF rest = {} THEN [c EXCEPT !.pc = "done", !.outcome = "ok"]
        ELSE LET j       == CHOOSE m \in rest : \A n \in rest : m <= n
                 type    == TypeOf(c.names[j])
                 pattern == c.names[j] \o <<":">> \o c.pattern
                 fails   == IF type = "redis" THEN RedisFails ELSE cache = "null"
             IN  IF fails
                 THEN Throws([c EXCEPT !.idx = j, !.type = type, !.backendFault = TRUE])
                 ELSE [c EXCEPT !.pc = "listed", !.idx = j, !.type = type,
                                !.pending = IF type = "redis" THEN redisKeys(pattern)
                                            ELSE cacheKeys(pattern)]

\* cacheDropAll({cache, namespace, pattern})
cacheDropAll(cacheFilter, namespace, pattern) ==
    /\ CanIssue
    /\ HasFree
    /\ ops' = ops + 1
    /\ Settle(FreeSlot, BulkAdvances(BulkCall("cacheDropAll", cacheFilter, namespace, pattern, TRUE)))
    /\ UNCHANGED <<nodeVars, redisVars, settingsVars, nsVars, flushed>>

\* result += keys.length; await Promise.all(keys.map(key => del(key)))
DropAllDeletes(i) ==
    LET c     == calls[i]
        fails == c.pending # {} /\ (IF c.type = "redis" THEN RedisFails ELSE cache = "null")
        store == IF c.type = "redis" THEN redisStore ELSE nodeStore
        d     == [c EXCEPT !.count = @ + Cardinality(c.pending)]
    IN  /\ c.op = "cacheDropAll"
        /\ c.pc = "listed"
        /\ IF fails
           THEN /\ Settle(i, Throws([d EXCEPT !.backendFault = TRUE]))
                /\ UNCHANGED <<nodeStore, redisStore>>
           ELSE /\ Settle(i, [d EXCEPT !.pc = "deleted",
                                       !.removed = @ \cup ({c.type} \X (c.pending \cap DOMAIN store)),
                                       !.visited = @ \cup {c.names[c.idx]}])
                /\ IF c.type = "redis"
                   THEN redisStore' = Del(redisStore, c.pending) /\ UNCHANGED nodeStore
                   ELSE nodeStore' = Del(nodeStore, c.pending) /\ UNCHANGED redisStore
        /\ UNCHANGED <<cache, cacheEnabled, redis, redisConnected, redisEnabled,
                       clientOptions, redisClients, redisDown, settingsVars, nsVars, ops, flushed>>

\* a cacheDropAll that cacheOff or redisOff started is in flight in a slot
\* other than `me`
Flushing(kind, me) ==
    \E j \in Slots \ {me} :
        calls[j].op = "cacheDropAll" /\ ~calls[j].awaited /\ calls[j].cache = kind

\* call c has come to its end: whether it is the cacheDropAll that the last
\* cacheOff or redisOff started, returning while the kind is still off
Flushes(c, me, off) ==
    /\ c.op = "cacheDropAll" /\ ~c.awaited
    /\ c.pc = "done" /\ c.outcome = "ok"
    /\ off
    /\ ~Flushing(c.cache, me)

\* the deletions are done: the loop goes on
DropAllResumes(i) ==
    /\ calls[i].op = "cacheDropAll"
    /\ calls[i].pc = "deleted"
    /\ Settle(i, BulkAdvances(calls[i]))
    /\ flushed' = IF Flushes(BulkAdvances(calls[i]), i,
                             IF calls[i].cache = "redis" THEN ~redisEnabled
                             ELSE ~cacheEnabled)
                  THEN flushed \cup {calls[i].cache} ELSE flushed
    /\ UNCHANGED <<nodeVars, redisVars, settingsVars, nsVars, ops>>

\* cacheListAll({cache, namespace, pattern})
cacheListAll(cacheFilter, namespace, pattern) ==
    /\ CanIssue
    /\ HasFree
    /\ ops' = ops + 1
    /\ Settle(FreeSlot, BulkAdvances(BulkCall("cacheListAll", cacheFilter, namespace, pattern, TRUE)))
    /\ UNCHANGED <<nodeVars, redisVars, settingsVars, nsVars, flushed>>

\* keys = keys.concat(the keys listed): the loop goes on
ListAllResumes(i) ==
    LET c == calls[i]
    IN  /\ c.op = "cacheListAll"
        /\ c.pc = "listed"
        /\ Settle(i, BulkAdvances([c EXCEPT !.keys = @ \cup c.pending,
                                            !.visited = @ \cup {c.names[c.idx]}]))
        /\ UNCHANGED <<nodeVars, redisVars, settingsVars, nsVars, ops, flushed>>

\* ------------------------------------------------------------------------
\* cacheOn, cacheOff, redisOn, redisOff, cacheClose
\* ------------------------------------------------------------------------

cacheOn ==
    /\ CanIssue
    /\ ops' = ops + 1
    /\ cacheEnabled' = TRUE
    /\ flushed' = flushed \ {"node"}
    /\ calls' = Disturb(calls, 0)
    /\ ret' = [op |-> "cacheOn"]
    /\ UNCHANGED <<cache, nodeStore, redisVars, settingsVars, nsVars>>

\* the flag, then a cacheDropAll that is not awaited
cacheOff ==
    /\ CanIssue
    /\ HasFree
    /\ ops' = ops + 1
    /\ cacheEnabled' = FALSE
    /\ LET i == FreeSlot
           c == BulkAdvances(BulkCall("cacheDropAll", "node", Star, Star, FALSE))
       IN  /\ calls' = [Disturb(calls, i) EXCEPT ![i] = IF c.pc = "done" THEN Idle ELSE c]
           /\ flushed' = IF Flushes(c, 0, TRUE) THEN flushed \cup {"node"} ELSE flushed
    /\ ret' = [op |-> "cacheOff"]
    /\ UNCHANGED <<cache, nodeStore, redisVars, settingsVars, nsVars>>

redisOn ==
    /\ CanIssue
    /\ ops' = ops + 1
    /\ redisEnabled' = TRUE
    /\ flushed' = flushed \ {"redis"}
    /\ calls' = Disturb(calls, 0)
    /\ ret' = [op |-> "redisOn"]
    /\ UNCHANGED <<nodeVars, redis, redisConnected, clientOptions, redisClients, redisStore,
                   redisDown, settingsVars, nsVars>>

redisOff ==
    /\ CanIssue
    /\ HasFree
    /\ ops' = ops + 1
    /\ redisEnabled' = FALSE
    /\ LET i == FreeSlot
           c == BulkAdvances(BulkCall("cacheDropAll", "redis", Star, Star, FALSE))
       IN  /\ calls' = [Disturb(calls, i) EXCEPT ![i] = IF c.pc = "done" THEN Idle ELSE c]
           /\ flushed' = IF Flushes(c, 0, TRUE) THEN flushed \cup {"redis"} ELSE flushed
    /\ ret' = [op |-> "redisOff"]
    /\ UNCHANGED <<nodeVars, redis, redisConnected, clientOptions, redisClients, redisStore,
                   redisDown, settingsVars, nsVars>>

\* the node-cache instance is let go, the Redis client quits
cacheClose ==
    /\ CanIssue
    /\ ops' = ops + 1
    /\ cache' = "null"
    /\ nodeStore' = << >>
    /\ redis' = "null"
    /\ calls' = Disturb(calls, 0)
    /\ ret' = [op |-> "cacheClose"]
    /\ UNCHANGED <<cacheEnabled, redisConnected, redisEnabled, clientOptions, redisClients,
                   redisStore, redisDown, settingsVars, nsVars, flushed>>

\* ------------------------------------------------------------------------
\* The Redis client's events
\* ------------------------------------------------------------------------

\* 'connect': the handler sets #redisConnected
RedisConnect ==
    /\ redis = "client"
    /\ ~redisConnected \/ redisDown
    /\ redisConnected' = TRUE
    /\ redisDown' = FALSE
    /\ calls' = Disturb(calls, 0)
    /\ ret' = NoRet
    /\ UNCHANGED <<nodeVars, redis, redisEnabled, clientOptions, redisClients, redisStore,
                   settingsVars, nsVars, ops, flushed>>

\* 'error': the server is lost; the handler only logs
RedisError ==
    /\ redis = "client"
    /\ ~redisDown
    /\ redisDown' = TRUE
    /\ calls' = Disturb(calls, 0)
    /\ ret' = NoRet
    /\ UNCHANGED <<nodeVars, redis, redisConnected, redisEnabled, clientOptions, redisClients,
                   redisStore, settingsVars, nsVars, ops, flushed>>

Next ==
    \/ \E value \in NsNames : SetCacheNamespace(value)
    \/ \E name \in NsArgNames, type \in NsArgTypes, opt \in NsOptions :
          addNamespace(name, type, opt)
    \/ \E key \in RawKeys, value \in Values : cacheSet(key, value)
    \/ \E key \in RawKeys : cacheDrop(key)
    \/ \E key \in RawKeys : cacheGet(key)
    \/ \E filePath \in FilePaths : fileRead(filePath)
    \/ \E filePath \in FilePaths : fileDrop(filePath)
    \/ \E i \in Slots, value \in Values : CbReturns(i, value)
    \/ \E i \in Slots : CbFails(i)
    \/ \E cacheFilter \in CacheFilters, namespace \in NsFilters, pattern \in Patterns :
          cacheDropAll(cacheFilter, namespace, pattern)
    \/ \E i \in Slots : DropAllDeletes(i)
    \/ \E i \in Slots : DropAllResumes(i)
    \/ \E cacheFilter \in CacheFilters, namespace \in NsFilters, pattern \in Patterns :
          cacheListAll(cacheFilter, namespace, pattern)
    \/ \E i \in Slots : ListAllResumes(i)
    \/ cacheOn
    \/ cacheOff
    \/ redisOn
    \/ redisOff
    \/ cacheClose
    \/ RedisConnect
    \/ RedisError

Spec == Init /\ [][Next]_vars

\* ------------------------------------------------------------------------
\* An application that has registered its namespaces
\* ------------------------------------------------------------------------

\* The state once the application's start-up has run, after the constructor,
\*   addNamespace({name: 'R', type: 'redis'});
\*   addNamespace({name: 'B', type: 'node'});
InitApp ==
    /\ cache = "NodeCache"
    /\ nodeStore = (fileMakeKey(DefaultNs, <<"Default">>) :> "node-cache")
    /\ cacheNamespace = DefaultNs
    /\ cacheNamespaces = <<[name |-> DefaultNs, type |-> "node"],
                           [name |-> <<"R">>, type |-> "redis"],
                           [name |-> <<"B">>, type |-> "node"]>>
    /\ cacheEnabled = TRUE
    /\ redis = "client"
    /\ redisConnected = FALSE
    /\ redisEnabled = TRUE
    /\ redisURL = REDIS_URL
    /\ redisPort = "6379"
    /\ redisUser = "null"
    /\ redisPassword = "null"
    /\ cacheTTL = CACHE_TTL
    /\ clientOptions = [url |-> REDIS_URL, username |-> "null", password |-> "null"]
    /\ redisClients = 1
    /\ redisStore = << >>
    /\ redisDown = FALSE
    /\ calls = [i \in Slots |-> Idle]
    /\ ret = NoRet
    /\ ops = 0
    /\ flushed = {}

\* no call that the application could await is in flight
Quiet == \A i \in Slots : calls[i].op # "none" => ~calls[i].awaited

\* The application awaits each call before it issues the next.
NextApp ==
    \/ Quiet /\ \E value \in NsNames : SetCacheNamespace(value)
    \/ Quiet /\ \E name \in NsArgNames, type \in NsArgTypes, opt \in NsOptions :
          addNamespace(name, type, opt)
    \/ Quiet /\ \E key \in RawKeys, value \in Values : cacheSet(key, value)
    \/ Quiet /\ \E key \in RawKeys : cacheDrop(key)
    \/ Quiet /\ \E key \in RawKeys : cacheGet(key)
    \/ Quiet /\ \E filePath \in FilePaths : fileRead(filePath)
    \/ Quiet /\ \E filePath \in FilePaths : fileDrop(filePath)
    \/ \E i \in Slots, value \in Values : CbReturns(i, value)
    \/ \E i \in Slots : CbFails(i)
    \/ Quiet /\ \E cacheFilter \in CacheFilters, namespace \in NsFilters,
                   pattern \in Patterns :
          cacheDropAll(cacheFilter, namespace, pattern)
    \/ \E i \in Slots : DropAllDeletes(i)
    \/ \E i \in Slots : DropAllResumes(i)
    \/ Quiet /\ \E cacheFilter \in CacheFilters, namespace \in NsFilters,
                   pattern \in Patterns :
          cacheListAll(cacheFilter, namespace, pattern)
    \/ \E i \in Slots : ListAllResumes(i)
    \/ Quiet /\ cacheOn
    \/ Quiet /\ cacheOff
    \/ Quiet /\ redisOn
    \/ Quiet /\ redisOff
    \/ Quiet /\ cacheClose
    \/ RedisConnect
    \/ RedisError

SpecApp == InitApp /\ [][NextApp]_vars

\* ------------------------------------------------------------------------
\* The key codec on its own
\* ------------------------------------------------------------------------

\* the length of the raw keys that are tried exhaustively
MaxKeyLen == 3

\* separators, dot, colon, a whitespace character, a letter
KeyAlphabet == {"/", "\\", ".", ":", "\t", "a"}

\* the strings over KeyAlphabet of length n or less
RECURSIVE KeyStrings(_)
KeyStrings(n) ==
    IF n = 0 THEN {<< >>}
    ELSE LET shorter == KeyStrings(n - 1)
         IN  shorter \cup {Append(k, c) : k \in shorter, c \in KeyAlphabet}

\* longer raw keys: 'a/b\c', runs of three and four dots inside a key,
\* dots and colons mixed at both ends
KeyExamples ==
    {<<"a", "/", "b", "\\", "c">>,
     <<"a", ".", ".", ".", "b">>,
     <<"a", ".", ".", ".", ".", "b">>,
     <<".", ":", "a", ":", ".">>,
     <<":", ".", "a", ".", ":">>}

KeySources == KeyStrings(MaxKeyLen) \cup KeyExamples

\* current namespaces: the default one and 'NS'
KeyNamespaces == {DefaultNs, <<"N", "S">>}

\* the constructor's state, the current namespace set to one of KeyNamespaces
InitKeys ==
    /\ cache = "NodeCache"
    /\ nodeStore = (fileMakeKey(DefaultNs, <<"Default">>) :> "node-cache")
    /\ cacheNamespace \in KeyNamespaces
    /\ cacheNamespaces = <<[name |-> DefaultNs, type |-> "node"]>>
    /\ cacheEnabled = TRUE
    /\ redis = "null"
    /\ redisConnected = FALSE
    /\ redisEnabled = TRUE
    /\ redisURL = REDIS_URL
    /\ redisPort = REDIS_PORT
    /\ redisUser = REDIS_USER
    /\ redisPassword = REDIS_PASSWORD
    /\ cacheTTL = CACHE_TTL
    /\ clientOptions = NoClientOptions
    /\ redisClients = 0
    /\ redisStore = << >>
    /\ redisDown = FALSE
    /\ calls = [i \in Slots |-> Idle]
    /\ ret = NoRet
    /\ ops = 0
    /\ flushed = {}

\* the application calls cacheMakeKey(keySource)
MakeKey(keySource) ==
    /\ ret' = [op |-> "cacheMakeKey", ns |-> cacheNamespace, keySource |-> keySource,
               result |-> cacheMakeKey(cacheNamespace, keySource)]
    /\ UNCHANGED <<nodeVars, redisVars, settingsVars, nsVars, calls, ops, flushed>>

NextKeys == \E keySource \in KeySources : MakeKey(keySource)

SpecKeys == InitKeys /\ [][NextKeys]_vars

\* ------------------------------------------------------------------------
\* The key filter of node-cache on its own
\* ------------------------------------------------------------------------

\* the length of the patterns and of the keys that are tried exhaustively
MaxGlobLen == 3

\* a letter, the two wildcards, a regular expression's metacharacter
GlobAlphabet == {"a", "*", "?", "."}

\* two letters, a dot, a line terminator
GlobKeyAlphabet == {"a", "b", ".", "\n"}

\* the strings over alphabet of length n or less
RECURSIVE StringsOver(_, _)
StringsOver(alphabet, n) ==
    IF n = 0 THEN {<< >>}
    ELSE LET shorter == StringsOver(alphabet, n - 1)
         IN  shorter \cup {Append(k, c) : k \in shorter, c \in alphabet}

\* longer patterns: 'a*c', 'a?c', 'NS:a.b', 'a[b]'
GlobExamples ==
    {<<"a", "*", "c">>, <<"a", "?", "c">>,
     <<"N", "S", ":", "a", ".", "b">>, <<"a", "[", "b", "]">>}

\* longer keys: 'abc', 'ac', 'abd', 'xabc', 'NS:a.b', 'NS:aXb', 'a[b]'
GlobKeyExamples ==
    {<<"a", "b", "c">>, <<"a", "c">>, <<"a", "b", "d">>, <<"x", "a", "b", "c">>,
     <<"N", "S", ":", "a", ".", "b">>, <<"N", "S", ":", "a", "X", "b">>,
     <<"a", "[", "b", "]">>}

GlobPatterns == StringsOver(GlobAlphabet, MaxGlobLen) \cup GlobExamples
GlobKeys == StringsOver(GlobKeyAlphabet, MaxGlobLen) \cup GlobKeyExamples

\* the constructor's state, _cacheKeys(pattern) entered and the pattern
\* converted, no key filtered yet
InitGlob ==
    /\ cache = "NodeCache"
    /\ nodeStore = (fileMakeKey(DefaultNs, <<"Default">>) :> "node-cache")
    /\ cacheNamespace = DefaultNs
    /\ cacheNamespaces = <<[name |-> DefaultNs, type |-> "node"]>>
    /\ cacheEnabled = TRUE
    /\ redis = "null"
    /\ redisConnected = FALSE
    /\ redisEnabled = TRUE
    /\ redisURL = REDIS_URL
    /\ redisPort = REDIS_PORT
    /\ redisUser = REDIS_USER
    /\ redisPassword = REDIS_PASSWORD
    /\ cacheTTL = CACHE_TTL
    /\ clientOptions = NoClientOptions
    /\ redisClients = 0
    /\ redisStore = << >>
    /\ redisDown = FALSE
    /\ calls = [i \in Slots |-> Idle]
    /\ \E pattern \in GlobPatterns :
          ret = [op |-> "_cacheKeys", pattern |-> pattern, tested |-> FALSE,
                 key |-> << >>, result |-> FALSE]
    /\ ops = 0
    /\ flushed = {}

\* the filter of _cacheKeys applies regexPattern.test to a key
FilterKey(key) ==
    /\ ret.op = "_cacheKeys"
    /\ ret' = [ret EXCEPT !.tested = TRUE, !.key = key,
                          !.result = ConvertGlobToRegExpTest(ret.pattern, key)]
    /\ UNCHANGED <<nodeVars, redisVars, settingsVars, nsVars, calls, ops, flushed>>

NextGlob == \E key \in GlobKeys : FilterKey(key)

SpecGlob == InitGlob /\ [][NextGlob]_vars

\* ------------------------------------------------------------------------
\* The connection settings and the Redis client on their own
\* ------------------------------------------------------------------------

\* another server, another account; a user without a password
ConfigOptions ==
    NsOptions \cup {[url |-> "redis://10.0.0.2:6380", port |-> "6380",
                     user |-> "admin", password |-> "secret"],
                    [url |-> Undefined, port |-> Undefined,
                     user |-> "admin", password |-> Undefined]}

SettingNames == {"redisURL", "redisPort", "redisUser", "redisPassword", "cacheTTL"}

\* the values an application assigns to a setting
SettingValues(name) ==
    CASE name = "redisURL"      -> {REDIS_URL, "redis://10.0.0.3:6379"}
      [] name = "redisPort"     -> {REDIS_PORT, "6380"}
      [] name = "redisUser"     -> {REDIS_USER, "guest"}
      [] name = "redisPassword" -> {REDIS_PASSWORD, "pass"}
      [] name = "cacheTTL"      -> {CACHE_TTL, 60}

\* registrations of both kinds, assignments to the settings, cacheClose and
\* the client's events, from the constructor's state
NextConfig ==
    \/ \E name \in NsNames, type \in {"node", "redis"}, opt \in ConfigOptions :
          addNamespace(name, type, opt)
    \/ \E name \in SettingNames : \E value \in SettingValues(name) :
          SetSetting(name, value)
    \/ cacheClose
    \/ RedisConnect
    \/ RedisError

SpecConfig == Init /\ [][NextConfig]_vars

\* ------------------------------------------------------------------------
\* Two namespaces, the name of one beginning with the name of the other
\* ------------------------------------------------------------------------

\* 'A' and 'A:B'
IsoNames == {<<"A">>, <<"A", ":", "B">>}

\* 'k' and 'B/k'
IsoKeys == {<<"k">>, <<"B", "/", "k">>}

\* the application keeps apart what it stores: 'X' under 'A', 'Y' under 'A:B'
IsoValue(ns) == IF ns = <<"A">> THEN "X" ELSE "Y"

\* the constructor's state, then addNamespace({name: 'A', type: 'node'}),
\* addNamespace({name: 'A:B', type: 'node'}) and cacheNamespace = 'A'
InitIso ==
    /\ cache = "NodeCache"
    /\ nodeStore = (fileMakeKey(DefaultNs, <<"Default">>) :> "node-cache")
    /\ cacheNamespace = <<"A">>
    /\ cacheNamespaces = <<[name |-> DefaultNs, type |-> "node"],
                           [name |-> <<"A">>, type |-> "node"],
                           [name |-> <<"A", ":", "B">>, type |-> "node"]>>
    /\ cacheEnabled = TRUE
    /\ redis = "null"
    /\ redisConnected = FALSE
    /\ redisEnabled = TRUE
    /\ redisURL = REDIS_URL
    /\ redisPort = REDIS_PORT
    /\ redisUser = REDIS_USER
    /\ redisPassword = REDIS_PASSWORD
    /\ cacheTTL = CACHE_TTL
    /\ clientOptions = NoClientOptions
    /\ redisClients = 0
    /\ redisStore = << >>
    /\ redisDown = FALSE
    /\ calls = [i \in Slots |-> Idle]
    /\ ret = NoRet
    /\ ops = 0
    /\ flushed = {}

\* the key operations and the bulk operations under the two namespaces
NextIso ==
    \/ \E value \in IsoNames : SetCacheNamespace(value)
    \/ \E key \in IsoKeys : cacheSet(key, IsoValue(cacheNamespace))
    \/ \E key \in IsoKeys : cacheGet(key)
    \/ \E i \in Slots : calls[i].op = "cacheGet" /\ CbReturns(i, IsoValue(calls[i].ns))
    \/ \E i \in Slots : CbFails(i)
    \/ \E namespace \in IsoNames : cacheDropAll("*", namespace, Star)
    \/ \E i \in Slots : DropAllDeletes(i)
    \/ \E i \in Slots : DropAllResumes(i)
    \/ \E namespace \in IsoNames : cacheListAll("*", namespace, Star)
    \/ \E i \in Slots : ListAllResumes(i)

SpecIso == InitIso /\ [][NextIso]_vars

\* ------------------------------------------------------------------------
\* The file key on its own
\* ------------------------------------------------------------------------

\* the length of the file paths that are tried exhaustively
MaxPathLen == 4

\* a separator, the root's directory name, a file name
PathAlphabet == {"/", "srv", "a"}

FilePathsAll == StringsOver(PathAlphabet, MaxPathLen)

\* the application calls fileMakeKey(filePath)
MakeFileKey(filePath) ==
    /\ ret' = [op |-> "fileMakeKey", ns |-> cacheNamespace, filePath |-> filePath,
               result |-> fileMakeKey(cacheNamespace, filePath)]
    /\ UNCHANGED <<nodeVars, redisVars, settingsVars, nsVars, calls, ops, flushed>>

NextFileKey == \E filePath \in FilePathsAll : MakeFileKey(filePath)

SpecFileKey == Init /\ [][NextFileKey]_vars

\* ------------------------------------------------------------------------
\* Progress of the calls in flight
\* ------------------------------------------------------------------------

\* one key, one value
LiveKeys == {<<"a", ".", "b">>}
LiveValues == {"X"}

\* a call resumes only when it is the one call in flight
CanResumeAlone(i) ==
    calls[i].op # "none" /\ \A j \in Slots \ {i} : calls[j].op = "none"

\* the call in slot i is suspended at an await: the event loop resumes it
\* when what it awaits settles, whatever other calls are in flight
CanResume(i) == calls[i].op # "none"

\* what the call in slot i waits for comes: its callback returns or fails,
\* its backend has done the deletions or handed over the keys
Resumes(i) ==
    /\ CanResume(i)
    /\ \/ \E value \in LiveValues : CbReturns(i, value)
       \/ CbFails(i)
       \/ DropAllDeletes(i)
       \/ DropAllResumes(i)
       \/ ListAllResumes(i)

\* weak fairness of Resumes(i), which is WF_vars(Resumes(i)) written out:
\* a call in flight can always take its next step, so Resumes(i) is enabled
\* exactly when CanResume(i) holds
Fair(i) == []<>(~CanResume(i)) \/ []<><<Resumes(i)>>_vars

\* the key operations and the bulk operations, issued at any time, under
\* the default namespace and the redis namespace, the server lost and found
NextLive ==
    \/ \E value \in {DefaultNs, <<"R">>} : SetCacheNamespace(value)
    \/ \E key \in LiveKeys, value \in LiveValues : cacheSet(key, value)
    \/ \E key \in LiveKeys : cacheDrop(key)
    \/ \E key \in LiveKeys : cacheGet(key)
    \/ cacheDropAll("*", Star, Star)
    \/ cacheListAll("*", Star, Star)
    \/ \E i \in Slots : Resumes(i)
    \/ RedisConnect
    \/ RedisError

\* every callback and every backend call comes to its end
SpecLive == InitApp /\ [][NextLive]_vars /\ \A i \in Slots : Fair(i)

\* ------------------------------------------------------------------------
\* Entries written under names that were never registered
\* ------------------------------------------------------------------------

\* 'B' and 'MicroCODE:B': neither is given to addNamespace
OrphanNames == {<<"B">>, <<"MicroCODE", ":", "B">>}

\* the application key 'a.b'
OrphanRawKeys == {<<"a", ".", "b">>}

\* the backend keys cacheSet makes under the two names
OrphanKeys == {fileMakeKey(ns, key) : ns \in OrphanNames, key \in OrphanRawKeys}

\* cacheSet under the registered name and under the two others, and the
\* bulk operations over every namespace
NextOrphan ==
    \/ \E value \in OrphanNames \cup {DefaultNs} : SetCacheNamespace(value)
    \/ \E key \in OrphanRawKeys, value \in {"X", "Y"} : cacheSet(key, value)
    \/ cacheListAll("*", Star, Star)
    \/ \E i \in Slots : ListAllResumes(i)
    \/ cacheDropAll("*", Star, Star)
    \/ \E i \in Slots : DropAllDeletes(i)
    \/ \E i \in Slots : DropAllResumes(i)
    \/ cacheOff
    \/ cacheOn

SpecOrphan == Init /\ [][NextOrphan]_vars

\* ------------------------------------------------------------------------
\* Files written and read through the cache
\* ------------------------------------------------------------------------

\* The application awaits each call before it issues the next: it writes,
\* reads and drops the file under the default namespace and under 'B'.
NextFile ==
    \/ Quiet /\ \E value \in {DefaultNs, <<"B">>} : SetCacheNamespace(value)
    \/ Quiet /\ \E filePath \in FilePaths, fileData \in Values : fileWrite(filePath, fileData)
    \/ \E i \in Slots : DiskWrites(i)
    \/ \E i \in Slots : DiskFails(i)
    \/ Quiet /\ \E filePath \in FilePaths : fileRead(filePath)
    \/ \E i \in Slots, value \in Values : CbReturns(i, value)
    \/ \E i \in Slots : CbFails(i)
    \/ Quiet /\ \E filePath \in FilePaths : fileDrop(filePath)

SpecFile == Init /\ [][NextFile]_vars

\* ------------------------------------------------------------------------
\* Properties of cacheGet and cacheSet
\* ------------------------------------------------------------------------

\* the last step completed a cacheGet under a registered namespace
GetDone == ret.op = "cacheGet" /\ ret.kind \in {"node", "redis"}

\* the backend held no entry for the key when the call began
Missed(c) == c.held \in {Undefined, Null}

\* C1: round trip.  A cacheGet(k, cb) that follows a cacheSet(k, v) which
\* stored v, under the same namespace with its backend enabled, returns v
\* and does not invoke cb; v may be falsy.
C1_RoundTrip ==
    (GetDone /\ ret.after.op = "cacheSet" /\ ret.after.stored /\ ~ret.off)
        => /\ ret.outcome = "ok"
           /\ ret.result = ret.after.value
           /\ ret.cbCalls = 0

\* the backend's entry for a call's key, now
EntryOf(c) ==
    LET store == IF c.kind = "redis" THEN redisStore ELSE nodeStore
    IN  IF c.cacheKey \in DOMAIN store THEN store[c.cacheKey] ELSE Undefined

\* C2: fallback on miss.  Under a namespace of either kind, a cacheGet(k, cb1)
\* for an absent key invokes cb1, returns its result X and stores X under the
\* backend key; the cacheGet(k, cb2) that follows returns X and does not
\* invoke cb2.
C2_FallbackOnMiss ==
    /\ (GetDone /\ Missed(ret) /\ ~ret.off /\ ~ret.backendFault /\ ret.cbFaults = 0)
          => /\ ret.outcome = "ok"
             /\ ret.cbCalls = 1
             /\ ret.result = ret.cbValue
             /\ EntryOf(ret) = ret.result
    /\ (GetDone /\ ret.after.op = "cacheGet" /\ ret.after.stored /\ ~ret.off)
          => /\ ret.outcome = "ok"
             /\ ret.result = ret.after.value
             /\ ret.cbCalls = 0

\* cacheClose has let the backend's instance go
BackendGone(kind) == IF kind = "redis" THEN redis = "null" ELSE cache = "null"

\* C3: fail open.  Under a namespace of either kind, a cacheGet whose backend
\* get or set faults, the backend's instance being there, does not fail: it
\* returns the result of cb.
C3_FailOpen ==
    (GetDone /\ ret.backendFault /\ ~BackendGone(ret.kind) /\ ret.cbFaults = 0)
        => /\ ret.outcome = "ok"
           /\ ret.cbCalls >= 1
           /\ ret.result = ret.cbValue

\* C4: disabled-backend bypass.  A cacheGet issued while the kind of the
\* current namespace is disabled invokes cb, returns its result and neither
\* reads nor writes that backend.
C4_DisabledBypass ==
    (GetDone /\ ret.off /\ ret.cbFaults = 0)
        => /\ ret.outcome = "ok"
           /\ ret.cbCalls >= 1
           /\ ret.result = ret.cbValue
           /\ ret.kind \notin ret.reads \cup ret.writes

\* C5: a fault of cb during a cacheGet miss reaches the caller, and the call
\* stores nothing.
C5_ComputeFaultPropagates ==
    (GetDone /\ Missed(ret) /\ ~ret.off /\ ~ret.backendFault /\ ret.cbFaults >= 1)
        => /\ ret.outcome = "fault"
           /\ ret.writes = {}

\* ------------------------------------------------------------------------
\* Properties of cacheDropAll and cacheListAll
\* ------------------------------------------------------------------------

\* a call on a backend of this kind fails
BackendFails(kind) == IF kind = "redis" THEN RedisFails ELSE cache = "null"

\* The entry <<kind, k>> is in the scope of a bulk call c: it matches
\* '<N>:<pattern>', as a glob, for a registered namespace N that the call's
\* namespace and cache filters select and whose kind holds the entry.
InScope(c, kind, k) ==
    \E N \in Registered :
        /\ NamespaceSelected(N, c.namespace)
        /\ TypeOf(N) = kind
        /\ kind = c.cache \/ c.cache = "*"
        /\ GlobMatch(N \o <<":">> \o c.pattern, k)

\* the last step completed a cacheDropAll that its caller awaits and that
\* ran alone, without a fault
DropAllDone ==
    ret.op = "cacheDropAll" /\ ret.awaited /\ ret.clean /\ ret.outcome = "ok"

\* C6: bulk scope.  cacheDropAll removes exactly the entries in its scope and
\* leaves every other entry of both backends.
C6_BulkScope ==
    DropAllDone
        => /\ \A e \in ret.removed : InScope(ret, e[1], e[2])
           /\ \A k \in DOMAIN nodeStore : ~InScope(ret, "node", k)
           /\ \A k \in DOMAIN redisStore : ~InScope(ret, "redis", k)

\* C7: the number cacheDropAll returns is the number of entries the call
\* removed, whatever other calls did meanwhile.
C7_CountIsRemoved ==
    (ret.op = "cacheDropAll" /\ ret.outcome = "ok")
        => ret.count = Cardinality(ret.removed)

\* the keys the code lists for namespace N under a call's pattern, now
Listed(c, N) ==
    IF TypeOf(N) = "redis" THEN redisKeys(N \o <<":">> \o c.pattern)
    ELSE cacheKeys(N \o <<":">> \o c.pattern)

\* C8: best effort.  When a backend faults at one selected namespace, the
\* selected namespaces after it that hold keys, their backend being sound,
\* are still dealt with: cacheDropAll has removed their keys, cacheListAll
\* returns them.
C8_BestEffort ==
    (ret.op \in BulkOps /\ ret.clean /\ ret.backendFault)
        => \A j \in (ret.idx + 1)..Len(ret.names) :
              (/\ BulkSelects(ret, j)
               /\ ~BackendFails(TypeOf(ret.names[j]))
               /\ Listed(ret, ret.names[j]) # {})
                  => IF ret.op = "cacheDropAll"
                     THEN Listed(ret, ret.names[j]) = {}
                     ELSE ret.outcome = "ok" /\ Listed(ret, ret.names[j]) \subseteq ret.keys

\* What cacheDropAll({cache, namespace, pattern}) removes when it runs alone
\* from stores node and red, from the j-th registered namespace on: the
\* loop of cacheDropAll, which a failing backend ends.
RECURSIVE DropAllRun(_, _, _, _, _, _)
DropAllRun(j, node, red, cacheFilter, namespace, pattern) ==
    IF j > Len(cacheNamespaces) THEN {}
    ELSE LET N    == cacheNamespaces[j].name
             type == cacheNamespaces[j].type
             sel  == NamespaceSelected(N, namespace) /\ DropAllSelects(type, cacheFilter)
             p    == N \o <<":">> \o pattern
             ks   == IF type = "redis" THEN redisKeysOf(red, p) ELSE cacheKeysOf(node, p)
         IN  IF ~sel
             THEN DropAllRun(j + 1, node, red, cacheFilter, namespace, pattern)
             ELSE IF BackendFails(type) THEN {}
             ELSE ks \cup DropAllRun(j + 1,
                                     IF type = "redis" THEN node ELSE Del(node, ks),
                                     IF type = "redis" THEN Del(red, ks) ELSE red,
                                     cacheFilter, namespace, pattern)

\* a step of a cacheListAll call: it completes the call, or it leaves the
\* call in its slot, new or one namespace further
ListAllStep ==
    \/ ret'.op = "cacheListAll"
    \/ \E i \in Slots :
          /\ calls'[i].op = "cacheListAll"
          /\ calls[i].op # "cacheListAll" \/ calls[i].idx # calls'[i].idx

\* C9: cacheListAll changes no state (stores, registry, current namespace,
\* enable flags, instances, settings), and what it returns when it ran alone
\* is the set of keys that cacheDropAll with the same arguments would remove
\* from that state.
C9_ListAllIsDropAllsKeys ==
    [][ListAllStep
         => /\ UNCHANGED <<nodeVars, redisVars, settingsVars, nsVars>>
            /\ (ret'.op = "cacheListAll" /\ ret'.clean /\ ret'.outcome = "ok")
                  => ret'.keys = DropAllRun(1, nodeStore, redisStore, ret'.cache,
                                            ret'.namespace, ret'.pattern)]_vars

\* a cacheListAll that ran alone has returned keys of both backends
C9_Witness ==
    /\ ret.op = "cacheListAll" /\ ret.clean /\ ret.outcome = "ok"
    /\ ret.keys \cap DOMAIN nodeStore # {}
    /\ ret.keys \cap DOMAIN redisStore # {}

\* ------------------------------------------------------------------------
\* Properties of the registry
\* ------------------------------------------------------------------------

\* C10: kind stability.  A registered namespace keeps the kind it was
\* registered with: no step, and no addNamespace with another kind, changes
\* the kind of a registered name.
C10_KindStability ==
    [][\A N \in Registered : TypeIn(cacheNamespaces', N) = TypeOf(N)]_vars
\* the step is an addNamespace with the name and type of the addNamespace
\* that the step before it was
Reregisters ==
    /\ ret.op = "addNamespace" /\ ret'.op = "addNamespace" /\ ops' # ops
    /\ ret'.name = ret.name /\ ret'.type = ret.type

\* C11: idempotent registration.  An addNamespace({name, type}) that follows
\* the same addNamespace({name, type}) leaves the registry, the backend
\* instances, the stores and the current namespace as the first call left
\* them.
C11_IdempotentRegistration ==
    [][Reregisters
         => UNCHANGED <<cacheNamespaces, cacheNamespace, cache, redis, clientOptions, redisClients,
                        nodeStore, redisStore>>]_vars

\* a Redis namespace has been registered again, the client being there
C11_Witness ==
    /\ ret.op = "addNamespace" /\ ret.type = "redis" /\ ret.was = "redis"
    /\ redis = "client"

\* C12: an invalid registration is a no-op.  addNamespace without a name,
\* without a type (a missing argument is both) or with a type other than
\* 'node' and 'redis' leaves the registry, the current namespace, both
\* backend instances and the connection settings unchanged.
C12_InvalidRegistrationNoOp ==
    [][(ret'.op = "addNamespace" /\ ops' # ops
          /\ (\/ ret'.name = NoName
              \/ ret'.type = Undefined
              \/ ret'.type \notin {"node", "redis"}))
         => UNCHANGED <<cacheNamespaces, cacheNamespace, cache, redis, clientOptions, redisClients,
                        settingsVars>>]_vars

\* addNamespace has been given the type 'redis' and no name, no Redis
\* client being there
C12_Witness ==
    ret.op = "addNamespace" /\ ret.name = NoName /\ ret.type = "redis" /\ redis = "null"

\* C13: the current namespace is a registered namespace in every state;
\* assigning an unregistered name to cacheNamespace does not change it.
C13_CurrentNamespaceRegistered == cacheNamespace \in Registered

\* the last step completed a key operation under a namespace that is not
\* in the registry
UnknownNamespaceOp ==
    ret.op \in {"cacheGet", "cacheSet", "cacheDrop"} /\ ret.kind = "undefined"

\* C14: a cacheGet, cacheSet or cacheDrop under a current namespace that is
\* not registered fails, and neither reads nor writes a backend.
C14_UnknownNamespaceFails ==
    UnknownNamespaceOp
        => /\ ret.outcome = "fault"
           /\ ret.op = "cacheGet" => ret.reads = {} /\ ret.writes = {}
           /\ ret.op = "cacheSet" => ~ret.written

\* the keys held by the backend of a kind
KeysOf(kind) == IF kind = "redis" THEN DOMAIN redisStore ELSE DOMAIN nodeStore

\* C15: flush on disable.  Once cacheOff (redisOff) was called and the
\* cacheDropAll it started has returned, and until cacheOn (redisOn), no
\* entry appears in the store of that kind, whatever calls are in flight.
C15_FlushOnDisable ==
    [][\A kind \in flushed \cap flushed' : KeysOf(kind)' \subseteq KeysOf(kind)]_vars

\* C16: after cacheClose a cacheGet fails fast: it does not invoke cb and
\* returns no value.
C16_ClosedFailsFast ==
    (ret.op = "cacheGet" /\ ret.closed)
        => ret.cbCalls = 0 /\ (ret.outcome = "fault" \/ ret.result \in {Undefined, Null})

\* C17: readiness.  cacheReady is true exactly when the node-cache instance
\* exists and the Redis client, if there is one, is connected, which it is
\* not from an 'error' event until it reconnects.
C17_Readiness ==
    cacheReady <=> (cache # "null" /\ (redis # "null" => redisConnected /\ ~redisDown))

\* C18: file read-through.  The first fileRead(p) after fileDrop(p) reads
\* the file from disk once and caches its content; the fileRead(p) that
\* follows a fileRead(p), the cache being on, returns that content without
\* reading the disk.
C18_FileReadThrough ==
    /\ (ret.op = "fileRead" /\ ret.after.op = "fileDrop" /\ ~ret.off /\ ~ret.closed
           /\ ~ret.backendFault /\ ret.cbFaults = 0)
          => /\ ret.outcome = "ok"
             /\ ret.cbCalls = 1
             /\ ret.result = ret.cbValue
             /\ EntryOf(ret) = ret.result
    /\ (ret.op = "fileRead" /\ ret.after.op = "fileRead" /\ ret.after.stored
           /\ ~ret.off /\ ~ret.closed)
          => /\ ret.outcome = "ok"
             /\ ret.cbCalls = 0
             /\ ret.result = ret.after.value

\* The reference transformation of a raw key k under namespace ns, in five
\* steps: separators to ':', each '..' to '.', leading and trailing '.'
\* runs stripped, leading and trailing ':' runs stripped, 'ns:' prepended.
ReferenceKey(ns, k) ==
    ns \o <<":">> \o StripEnds(StripEnds(CollapseDots(SlashesToColons(k)), "."), ":")

\* C19: for every raw key and current namespace, cacheMakeKey returns what
\* the five-step reference transformation gives.
C19_KeyIsReferenceKey ==
    ret.op = "cacheMakeKey" => ret.result = ReferenceKey(ret.ns, ret.keySource)

\* s holds two dots in a row
HasDotDot(s) == \E i \in 1..(Len(s) - 1) : s[i] = "." /\ s[i + 1] = "."

\* C20: key format.  For every raw key and a namespace name without ':' and
\* '.', the backend key is the namespace, a colon and the normalized key;
\* the normalized key neither begins nor ends with a colon, and the backend
\* key has no '..' in it.  (For the empty key the backend key is the
\* namespace and its colon.)
C20_KeyFormat ==
    ret.op = "cacheMakeKey"
        => LET key == ret.result
               n   == Len(ret.ns)
           IN  /\ Len(key) > n
               /\ SubSeq(key, 1, n) = ret.ns
               /\ key[n + 1] = ":"
               /\ key[1] # ":"
               /\ Len(key) > n + 1 => key[n + 2] # ":" /\ key[Len(key)] # ":"
               /\ ~HasDotDot(key)

\* ------------------------------------------------------------------------
\* Properties of the key filter
\* ------------------------------------------------------------------------

\* the pattern is made of letters, '*' and '?' only
PlainGlob(g) == \A i \in 1..Len(g) : g[i] \in {"a", "b", "c", "*", "?"}

\* C21: glob matching.  For every pattern of letters, '*' and '?' and every
\* string s, the filter made from the pattern accepts s exactly when the
\* whole of s matches the pattern, '*' being any run of characters and '?'
\* any one character.
C21_GlobMatching ==
    (ret.op = "_cacheKeys" /\ ret.tested /\ PlainGlob(ret.pattern))
        => (ret.result <=> GlobMatch(ret.pattern, ret.key))

\* C30: glob escaping.  In a pattern without '*' and '?' every character
\* matches only itself: the filter accepts the pattern's own text and
\* nothing else.
C30_GlobEscaping ==
    (ret.op = "_cacheKeys" /\ ret.tested
       /\ \A i \in 1..Len(ret.pattern) : ret.pattern[i] \notin {"*", "?"})
        => (ret.result <=> ret.key = ret.pattern)

\* ------------------------------------------------------------------------
\* Properties of cacheDrop
\* ------------------------------------------------------------------------

\* the step is a cacheDrop under a registered namespace whose backend answers
DropStep ==
    /\ ops' # ops
    /\ ret'.op = "cacheDrop"
    /\ ret'.kind \in {"node", "redis"}
    /\ ret'.outcome = "ok"

\* store without the entry of k, every other entry as it is
Without(store, k) == [x \in DOMAIN store \ {k} |-> store[x]]

\* C22: cacheDrop(k) returns 1 and removes the entry of k when the backend
\* of the current namespace holds it, returns 0 when it does not, and in
\* both cases leaves every other entry of both backends, the registry and
\* the current namespace as they are.
C22_DropRemovesOne ==
    [][DropStep =>
          LET k     == ret'.cacheKey
              store == IF ret'.kind = "redis" THEN redisStore ELSE nodeStore
          IN  /\ ret'.kind = TypeOf(cacheNamespace)
              /\ k = fileMakeKey(cacheNamespace, ret'.key)
              /\ ret'.result = (IF k \in DOMAIN store THEN 1 ELSE 0)
              /\ IF ret'.kind = "redis"
                 THEN redisStore' = Without(redisStore, k) /\ nodeStore' = nodeStore
                 ELSE nodeStore' = Without(nodeStore, k) /\ redisStore' = redisStore
              /\ UNCHANGED nsVars]_vars

\* a cacheDrop under a redis namespace has removed the entry of its key
C22_Witness ==
    /\ ret.op = "cacheDrop"
    /\ ret.kind = "redis"
    /\ ret.outcome = "ok"
    /\ ret.result = 1
    /\ ret.cacheKey \notin DOMAIN redisStore

\* ------------------------------------------------------------------------
\* Properties of concurrent calls
\* ------------------------------------------------------------------------

\* call c is a cacheGet under a node namespace that met a miss and waits
\* for its callback
InCompute(c) ==
    /\ c.op = "cacheGet"
    /\ c.kind = "node"
    /\ c.pc = "try"
    /\ Missed(c)
    /\ c.cbCalls = 1

\* C23: thundering herd.  A cacheGet that begins under an enabled node
\* namespace while another cacheGet of the same absent key waits for its
\* callback meets a miss as well and invokes its own callback: it does not
\* return at once, and both calls are then waiting for their callbacks.
C23_ThunderingHerd ==
    [][\A i \in Slots :
          (/\ InCompute(calls[i])
           /\ calls[i].cacheKey \notin DOMAIN nodeStore
           /\ cacheEnabled /\ cache # "null"
           /\ ops' # ops)
          => /\ ~(/\ ret'.op = "cacheGet" /\ ret'.kind = "node"
                  /\ ret'.cacheKey = calls[i].cacheKey)
             /\ \A j \in Slots :
                   (/\ calls[j].op = "none"
                    /\ calls'[j].op = "cacheGet"
                    /\ calls'[j].kind = "node"
                    /\ calls'[j].cacheKey = calls[i].cacheKey)
                   => InCompute(calls'[j]) /\ InCompute(calls'[i])]_vars

\* two cacheGet calls of the same key have met a miss and wait for their
\* callbacks
C23_Witness ==
    \E i, j \in Slots :
       /\ i # j
       /\ InCompute(calls[i]) /\ InCompute(calls[j])
       /\ calls[i].cacheKey = calls[j].cacheKey
       /\ calls[i].held = Undefined /\ calls[j].held = Undefined
       /\ ~calls[i].off /\ ~calls[j].off

\* s begins with p
HasPrefix(s, p) == Len(s) >= Len(p) /\ SubSeq(s, 1, Len(p)) = p

\* the step completes the cacheGet of slot i, begun under a node namespace
\* that is no longer the current one, with the value of its callback stored
CapturedStep(i) ==
    /\ calls[i].op = "cacheGet"
    /\ calls[i].pc = "try"
    /\ calls[i].kind = "node"
    /\ calls[i].ns # cacheNamespace
    /\ calls'[i].op = "none"
    /\ ret'.op = "cacheGet"
    /\ ret'.ns = calls[i].ns /\ ret'.key = calls[i].key
    /\ ret'.outcome = "ok"
    /\ ret'.writes # {}

C25_ClosedIsTerminal == cache = "null" => redis = "null" /\ ~cacheReady

\* C26: a Redis client is created only by an addNamespace of a redis
\* namespace, and at most once in the life of the facade: no client is
\* created when one was created before.
C26_OneRemoteClient ==
    [][redisClients' # redisClients
          => /\ redisClients = 0
             /\ clientOptions = NoClientOptions
             /\ ret'.op = "addNamespace"
             /\ ret'.type = "redis"]_vars

\* the step assigns a setting, or registers a redis namespace
ConfigStep ==
    /\ ops' # ops
    /\ \/ ret'.op = "set"
       \/ ret'.op = "addNamespace" /\ ret'.type = "redis"

\* C27: once the Redis client exists, assigning redisURL, redisPort,
\* redisUser, redisPassword or cacheTTL, or registering a further redis
\* namespace, with another url and other credentials or not, leaves the
\* client and the options it was created with as they are and creates no
\* client.
C27_ClientKeepsItsOptions ==
    [][(redis = "client" /\ ConfigStep)
          => /\ redis' = "client"
             /\ clientOptions' = clientOptions
             /\ redisClients' = redisClients]_vars

\* after redisURL was assigned another value, a second redis namespace has
\* been registered with a url of its own, and the one client still has the
\* options of its creation
C27_Witness ==
    /\ ret.op = "addNamespace"
    /\ ret.type = "redis"
    /\ ret.was = "undefined"
    /\ Truthy(ret.opt.url)
    /\ redis = "client"
    /\ redisClients = 1
    /\ clientOptions.url # ret.opt.url
    /\ clientOptions.url # redisURL
    /\ \E n \in Registered : n # ret.name /\ TypeOf(n) = "redis"

\* ------------------------------------------------------------------------
\* Properties of routing and of namespaces
\* ------------------------------------------------------------------------

\* C28: routing.  Every key operation (cacheGet, cacheSet, cacheDrop,
\* fileRead, fileDrop) reads, writes and deletes only in the backend of the
\* kind registered for the namespace it was called under, never in the
\* backend of the other kind.
C28_Routing ==
    /\ (ret.op \in GetOps /\ TypeOf(ret.ns) \in {"node", "redis"})
          => ret.reads \cup ret.writes \subseteq {TypeOf(ret.ns)}
    /\ (/\ ret.op \in {"cacheSet", "cacheDrop", "fileDrop"}
        /\ TypeOf(ret.ns) \in {"node", "redis"}
        /\ ret.outcome = "ok")
          => ret.kind = TypeOf(ret.ns)

\* the step is the deletion of the keys that the cacheDropAll of slot i,
\* called with one of the two namespaces, has listed
IsoDropStep(i) ==
    /\ calls[i].op = "cacheDropAll"
    /\ calls[i].pc = "listed"
    /\ calls[i].namespace \in IsoNames
    /\ calls'[i].op = "none" \/ calls'[i].pc # "listed"

\* C29: namespace isolation.  For two registered names, one of which may
\* begin with the other and a ':', what cacheSet stored under one is never
\* what a cacheGet under the other finds, and is never listed by a
\* cacheListAll nor removed by a cacheDropAll called with the other as
\* namespace.
C29_NamespaceIsolation ==
    [][/\ (/\ ret'.op = "cacheGet" /\ ret'.ns \in IsoNames
           /\ ret'.outcome = "ok" /\ ret'.cbCalls = 0)
             => ret'.result = IsoValue(ret'.ns)
       /\ (/\ ret'.op = "cacheListAll" /\ ret'.namespace \in IsoNames
           /\ ret'.outcome = "ok")
             => \A k \in ret'.keys \cap DOMAIN nodeStore' :
                   nodeStore'[k] = IsoValue(ret'.namespace)
       /\ \A i \in Slots :
             IsoDropStep(i)
                => \A k \in DOMAIN nodeStore \ DOMAIN nodeStore' :
                      nodeStore[k] = IsoValue(calls[i].namespace)]_vars

\* ------------------------------------------------------------------------
\* Properties of the file key
\* ------------------------------------------------------------------------

\* filePath without root when it begins with root, filePath otherwise
WithoutRootPrefix(filePath, root) ==
    IF HasPrefix(filePath, root)
    THEN SubSeq(filePath, Len(root) + 1, Len(filePath))
    ELSE filePath

\* C31: file key derivation.  fileMakeKey removes the root only when the
\* file path begins with it, once; a path that does not begin with the
\* root, one that holds the root further on included, goes to cacheMakeKey
\* as it is.
C31_RootIsPrefixOnly ==
    ret.op = "fileMakeKey"
        => ret.result = cacheMakeKey(ret.ns, WithoutRootPrefix(ret.filePath, fileGetRoot))

\* ------------------------------------------------------------------------
\* Properties of cacheSet, cacheGet and the callback
\* ------------------------------------------------------------------------

\* C32: cacheSet heeds the enable flag as cacheGet does.  A cacheSet called
\* while the kind of the current namespace is disabled writes nothing, for
\* a node namespace and for a redis namespace.
C32_DisabledSetWritesNothing ==
    (/\ ret.op = "cacheSet"
     /\ ret.kind \in {"node", "redis"}
     /\ IF ret.kind = "redis" THEN ~redisEnabled ELSE ~cacheEnabled)
        => ~ret.written

\* C33: when the first redis namespace is registered without a user or
\* without a password, the Redis client is created with the url alone;
\* it is created with credentials only when both a user and a password
\* were given, and then with those.
C33_CredentialsOnlyWhenGiven ==
    [][(redisClients' # redisClients /\ ret'.op = "addNamespace")
          => IF Truthy(ret'.opt.user) /\ Truthy(ret'.opt.password)
             THEN /\ DOMAIN clientOptions' = {"url", "username", "password"}
                  /\ clientOptions'.username = ret'.opt.user
                  /\ clientOptions'.password = ret'.opt.password
             ELSE DOMAIN clientOptions' = {"url"}]_vars

\* C34: when every backend call and every callback returns or fails in the
\* end, every facade call that was issued completes, with a result or a
\* failure: no slot holds a call for ever.
C34_EveryCallCompletes ==
    \A i \in Slots : (calls[i].op # "none") ~> (calls[i].op = "none")

\* a cacheDropAll has returned its count while another call is in flight
C34_Witness ==
    /\ ret.op = "cacheDropAll"
    /\ ret.outcome = "ok"
    /\ ret.removed # {}
    /\ \E i \in Slots : calls[i].op # "none"

\* C35: cache integrity.  What a cacheGet returns is the value its own
\* callback returned to it, or the value that the backend held under the
\* call's own backend key when the call began, put there by an earlier
\* cacheSet or miss and not removed since.
C35_CacheIntegrity ==
    (ret.op = "cacheGet" /\ ret.outcome = "ok")
        => \/ ret.cbCalls >= 1 /\ ret.result = ret.cbValue
           \/ /\ ret.cbCalls = 0
              /\ ret.held \notin {Undefined, Null}
              /\ ret.result = ret.held
              /\ ret.cacheKey = fileMakeKey(ret.ns, ret.key)

\* C36: stale repopulation.  When a cacheDrop or a cacheSet of the key took
\* effect while a cacheGet under a node namespace waited for its callback
\* after a miss, the cacheGet stores the callback's value all the same: at
\* its return the entry of the key holds the callback's value, neither
\* absent nor the value set meanwhile.
C36_StaleRepopulation ==
    (/\ ret.op = "cacheGet" /\ ret.kind = "node"
     /\ Missed(ret) /\ ~ret.off /\ ~ret.backendFault
     /\ ret.crossed.op # "none"
     /\ ret.outcome = "ok" /\ ret.cbCalls = 1 /\ ret.cbFaults = 0)
        => /\ ret.result = ret.cbValue
           /\ ret.cacheKey \in DOMAIN nodeStore
           /\ nodeStore[ret.cacheKey] = ret.cbValue

\* a cacheSet of another value took effect while the cacheGet waited, and
\* the entry holds the callback's value
C36_Witness ==
    /\ ret.op = "cacheGet" /\ ret.kind = "node"
    /\ Missed(ret) /\ ret.cbCalls = 1 /\ ret.outcome = "ok"
    /\ ret.crossed.op = "cacheSet"
    /\ ret.crossed.value # ret.cbValue
    /\ nodeStore[ret.cacheKey] = ret.cbValue

\* C37: compute retry on failure.  When the callback fails during a miss of
\* a cacheGet under a node namespace, the callback is invoked a second
\* time and the caller gets what the second invocation gives, its value or
\* its fault; the call invokes the callback twice at most and stores
\* nothing.
C37_ComputeRetry ==
    /\ \A i \in Slots : calls[i].op = "cacheGet" => calls[i].cbCalls <= 2
    /\ ret.op = "cacheGet" => ret.cbCalls <= 2
    /\ (/\ ret.op = "cacheGet" /\ ret.kind = "node"
        /\ Missed(ret) /\ ~ret.off /\ ~ret.backendFault
        /\ ret.cbFaults >= 1)
          => /\ ret.cbCalls = 2
             /\ ret.writes = {}
             /\ \/ ret.outcome = "ok" /\ ret.cbFaults = 1 /\ ret.result = ret.cbValue
                \/ ret.outcome = "fault" /\ ret.cbFaults = 2

\* the callback failed, was invoked again and returned: the caller has its
\* value and the node-cache has no entry of the key
C37_Witness ==
    /\ ret.op = "cacheGet" /\ ret.kind = "node"
    /\ Missed(ret) /\ ~ret.off /\ ~ret.backendFault
    /\ ret.cbFaults = 1 /\ ret.cbCalls = 2
    /\ ret.outcome = "ok" /\ ret.result = ret.cbValue
    /\ ret.cacheKey \notin DOMAIN nodeStore

\* C38: readiness after close.  Once cacheClose has let the node-cache
\* instance go, no step brings it back and cacheReady is false in every
\* state that follows, also after a redis namespace is registered anew and
\* its client reports 'connect'.
C38_NeverReadyAfterClose ==
    [][/\ cache = "null" => cache' = "null"
       /\ cache' = "null" => ~cacheReady']_vars

\* after cacheClose a redis namespace was registered and its client is
\* connected: cacheReady is false all the same
C38_Witness ==
    /\ cache = "null"
    /\ redis = "client" /\ redisConnected /\ ~redisDown
    /\ ret = NoRet
    /\ ~cacheReady

\* C39: orphan entries.  What cacheSet writes while the current namespace
\* is a name that is not registered goes to the node-cache under that
\* name's prefix, and no bulk operation reaches it: a cacheListAll over
\* every namespace does not list it, and no cacheDropAll over every
\* namespace, the one cacheOff starts included, removes it.
C39_OrphansOutOfReach ==
    [][/\ (/\ ret'.op = "cacheSet" /\ ret'.ns \in OrphanNames /\ ret'.written)
             => /\ ret'.cacheKey \in OrphanKeys
                /\ HasPrefix(ret'.cacheKey, ret'.ns \o <<":">>)
                /\ ret'.cacheKey \in DOMAIN nodeStore'
       /\ (ret'.op = "cacheListAll" /\ ret'.outcome = "ok")
             => ret'.keys \cap OrphanKeys = {}
       /\ (OrphanKeys \cap DOMAIN nodeStore) \subseteq DOMAIN nodeStore']_vars

\* C40: fileWrite ordering.  fileWrite(p, data) stores data in the
\* node-cache under p's key before it checks write access and writes to
\* disk: when the disk write fails fileWrite returns null while the cache
\* holds data, and the fileRead(p) that follows returns data without
\* reading the disk.
C40_WriteCachesFirst ==
    /\ (ret.op = "fileWrite" /\ ret.disk = "failed")
          => /\ ret.result = Null
             /\ ret.cacheKey \in DOMAIN nodeStore
             /\ nodeStore[ret.cacheKey] = ret.data
    /\ (ret.op = "fileRead" /\ ret.after.op = "fileWrite" /\ ret.after.failed)
          => /\ ret.outcome = "ok"
             /\ ret.result = ret.after.value
             /\ ret.cbCalls = 0

=============================================================================
